---------------------------- MODULE Spec2Model ----------------------------
(***************************************************************************)
(* A model of swappable_falco_engine                                       *)
(* (src/userspace/falco/swappable_falco_engine.cpp): producer threads      *)
(* build falco engines (init / replace / validate -> create_new) and hand  *)
(* them to the single consumer thread through m_pending_falco_engine; the  *)
(* consumer promotes the newest pending engine in engine().                *)
(*                                                                         *)
(* Strings that the code builds by concatenation (errstr) are sequences of *)
(* string tokens.  Shared pointers are engine ids into a heap that keeps   *)
(* each object's reference count; id 0 is the null pointer.                *)
(***************************************************************************)
EXTENDS Integers, Sequences, FiniteSets, Bags, TLC

(***************************************************************************)
(* Bounds of the model.                                                    *)
(***************************************************************************)
\* builds (create_new calls) in one behaviour of Spec
MaxEngines == 3
\* builds in one behaviour of SpecBuild
MaxBuilds == 2
\* longest rules file list handed to replace / validate in SpecBuild
MaxFiles == 3
\* references to engines that callers of engine() hold at one time
MaxHeld == 2

(***************************************************************************)
(* Values.                                                                 *)
(***************************************************************************)
\* the null pointer (shared_ptr<falco_engine> and sinsp*)
NULL == 0

\* the one sinsp inspector of the process
Inspector == 1

syscall_source == "syscall"

k8s_audit_source == "k8s_audit"

Producers == {"p1", "p2"}

\* what the header's declaration leaves in m_inspector before init
ConstructedInspector == NULL

\* plugin versions, as as_string() renders them
VersionString(v) ==
    CASE v = <<1, 0, 0>> -> "1.0.0"
      [] v = <<2, 0, 0>> -> "2.0.0"
      [] OTHER -> "0.0.0"

\* semantic version order: a before b
VersionLess(a, b) ==
    \/ a[1] < b[1]
    \/ a[1] = b[1] /\ a[2] < b[2]
    \/ a[1] = b[1] /\ a[2] = b[2] /\ a[3] < b[3]

(***************************************************************************)
(* Rules files (falco_engine::rulesfile): the content the loader reads.    *)
(* Rule names are sequences of letters so that enable_rule's substring     *)
(* match is computed.                                                      *)
(***************************************************************************)
RulesFileContent(name) ==
    CASE name = "app.yaml" ->
           [successful |-> TRUE,
            warnings   |-> TRUE,
            rules      |-> {[name |-> <<"n", "e", "t">>, tags |-> {"network"},
                             enabled |-> TRUE],
                            [name |-> <<"f", "s">>, tags |-> {"filesystem"},
                             enabled |-> TRUE],
                            [name |-> <<"f", "n">>, tags |-> {"network", "filesystem"},
                             enabled |-> FALSE]},
            required   |-> {}]
      [] name = "bad.yaml" ->
           [successful |-> FALSE,
            warnings   |-> FALSE,
            rules      |-> {},
            required   |-> {}]
      [] name = "k8s.yaml" ->
           [successful |-> TRUE,
            warnings   |-> FALSE,
            rules      |-> {[name |-> <<"k", "8">>, tags |-> {"k8s"},
                             enabled |-> TRUE]},
            required   |-> {[name |-> "json", version |-> <<2, 0, 0>>]}]
      [] OTHER ->
           [successful |-> FALSE, warnings |-> FALSE, rules |-> {}, required |-> {}]

RulesFileNames == {"app.yaml", "bad.yaml", "k8s.yaml"}

\* all lists of rules files of length at most n
RulesFileLists(n) ==
    UNION {[1..k -> RulesFileNames] : k \in 0..n}

\* the lists the producers of Spec hand to replace / validate
SwapFileLists ==
    {<<"app.yaml">>, <<"bad.yaml">>, <<"k8s.yaml">>}

(***************************************************************************)
(* swappable_falco_engine::config                                          *)
(***************************************************************************)
DefaultConfig ==
    [output_format |-> "", replace_container_info |-> FALSE,
     min_priority |-> "debug", json_output |-> FALSE, verbose |-> FALSE,
     event_sources |-> {syscall_source, k8s_audit_source},
     plugin_infos |-> <<>>,
     disabled_rule_substrings |-> <<>>,
     disabled_rule_tags |-> {},
     enabled_rule_tags |-> {}]

contains_event_source(cfg, source) ==
    source \in cfg.event_sources

JsonPlugin(v) ==
    [name |-> "json", plugin_version |-> v]

\* the configs the producers of Spec hand to init
SwapConfigs ==
    {DefaultConfig,
     [DefaultConfig EXCEPT !.plugin_infos = <<JsonPlugin(<<1, 0, 0>>)>>,
                           !.event_sources = @ \cup {"json"}]}

\* the configs handed to init in SpecBuild
BuildConfigs ==
    {[DefaultConfig EXCEPT !.verbose = vb, !.json_output = vb,
                           !.plugin_infos = pi,
                           !.disabled_rule_substrings = pol[1],
                           !.disabled_rule_tags = pol[2],
                           !.enabled_rule_tags = pol[3]] :
        vb \in BOOLEAN,
        pi \in {<<>>,
                <<JsonPlugin(<<1, 0, 0>>)>>,
                <<JsonPlugin(<<2, 0, 0>>)>>,
                <<[name |-> "cloudtrail", plugin_version |-> <<1, 0, 0>>],
                  JsonPlugin(<<1, 0, 0>>)>>},
        pol \in {<<<<>>, {}, {}>>,
                 <<<< <<"8">>, <<"e", "t">> >>, {}, {}>>,
                 <<<<>>, {"network"}, {}>>,
                 <<<< <<"s">> >>, {"k8s"}, {}>>,
                 <<<< <<"s">> >>, {"network"}, {"filesystem"}>>,
                 <<<<>>, {"filesystem"}, {"filesystem", "k8s"}>>}}


(***************************************************************************)
(* falco_engine objects and the heap of shared_ptr<falco_engine>.          *)
(* An entry keeps the reference count, the engine and, in "build", what    *)
(* create_new observed while it built that engine.                         *)
(***************************************************************************)
EmptyEngine ==
    [extra |-> <<>>, min_priority |-> "", sources |-> {}, rules |-> {},
     required |-> {}]

NoBuild ==
    [inspector |-> NULL, files |-> <<>>, results |-> <<>>,
     plugin_infos |-> <<>>, plugins_checked |-> FALSE, policy |-> FALSE,
     config |-> DefaultConfig]

\* the entry of an engine whose last reference is gone
Destroyed ==
    [alive |-> FALSE, refs |-> 0, obj |-> EmptyEngine, build |-> NoBuild]

\* make_shared<falco_engine>(): the new entry, held by one reference
MakeShared(h) ==
    Append(h, [alive |-> TRUE, refs |-> 1, obj |-> EmptyEngine, build |-> NoBuild])

\* a shared_ptr copy of e comes into being
Acquire(h, e) ==
    IF e = NULL \/ ~h[e].alive THEN h ELSE [h EXCEPT ![e].refs = @ + 1]

\* a shared_ptr holding e is destroyed or reassigned
Release(h, e) ==
    IF e = NULL \/ ~h[e].alive THEN h
    ELSE IF h[e].refs = 1 THEN [h EXCEPT ![e] = Destroyed]
    ELSE [h EXCEPT ![e].refs = @ - 1]

(***************************************************************************)
(* create_new, stage by stage.                                             *)
(***************************************************************************)
\* lines 146-186: global settings and one factory pair per event source
AddSources(obj, cfg, insp) ==
    [obj EXCEPT
       !.extra = <<cfg.output_format, cfg.replace_container_info>>,
       !.min_priority = cfg.min_priority,
       !.sources =
          {[source |-> s,
            inspector |-> IF s = k8s_audit_source THEN NULL ELSE insp,
            plugin_filter_checks |-> s \notin {syscall_source, k8s_audit_source},
            json_format |-> cfg.json_output] : s \in cfg.event_sources}]

\* falco_engine::load_rules: an unsuccessful file adds nothing
LoadRules(obj, name) ==
    LET c == RulesFileContent(name) IN
    [obj |-> IF c.successful
             THEN [obj EXCEPT !.rules = @ \cup c.rules,
                              !.required = @ \cup c.required]
             ELSE obj,
     res |-> [file |-> name, successful |-> c.successful, warnings |-> c.warnings]]

\* falco_engine::load_result::as_string
AsString(res, include_filenames, include_warnings) ==
    (IF include_filenames THEN <<res.file, ": ">> ELSE <<>>)
    \o <<IF res.successful THEN "Ok" ELSE "Invalid">>
    \o (IF include_warnings /\ res.warnings THEN <<" with warnings">> ELSE <<>>)
    \o <<"\n">>

RECURSIVE LoadRulesFilesStopsAtFailure(_, _, _, _)
\* LoadRulesFiles that leaves the loop at the first unsuccessful file
LoadRulesFilesStopsAtFailure(st, rulesfiles, i, cfg) ==
    IF i > Len(rulesfiles) \/ ~st.successful THEN st
    ELSE LET l == LoadRules(st.obj, rulesfiles[i]) IN
         LoadRulesFilesStopsAtFailure(
            [obj |-> l.obj,
             os |-> st.os \o AsString(l.res, Len(rulesfiles) > 1, cfg.verbose),
             successful |-> st.successful /\ l.res.successful,
             results |-> Append(st.results, l.res)],
            rulesfiles, i + 1, cfg)

RECURSIVE LoadRulesFiles(_, _, _, _)
\* lines 188-215: the loop over rulesfiles, from file i on;
\* st = [obj, os, successful, results]
LoadRulesFiles(st, rulesfiles, i, cfg) ==
    IF i > Len(rulesfiles) THEN st
    ELSE LET l == LoadRules(st.obj, rulesfiles[i]) IN
         LoadRulesFiles(
            [obj |-> l.obj,
             os |-> st.os \o AsString(l.res, Len(rulesfiles) > 1, cfg.verbose),
             successful |-> st.successful /\ l.res.successful,
             results |-> Append(st.results, l.res)],
            rulesfiles, i + 1, cfg)

\* the version a version string states
ParseVersion(str) ==
    CASE str = "1.0.0" -> <<1, 0, 0>>
      [] str = "2.0.0" -> <<2, 0, 0>>
      [] OTHER -> <<0, 0, 0>>

\* falco_engine::is_plugin_compatible(name, version, required_version)
IsPluginCompatible(obj, name, version) ==
    LET unmet == {r \in obj.required :
                    r.name = name /\ VersionLess(ParseVersion(version), r.version)}
    IN IF unmet = {} THEN [compatible |-> TRUE, required_version |-> ""]
       ELSE [compatible |-> FALSE,
             required_version |-> VersionString((CHOOSE r \in unmet : TRUE).version)]

\* CheckPlugins that treats an incompatible plugin as a warning
CheckPluginsWarnsOnly(obj, plugin_infos, i) ==
    [compatible |-> TRUE, errstr |-> <<>>]

RECURSIVE CheckPlugins(_, _, _)
\* lines 226-236: the loop over m_config.plugin_infos, from entry i on
CheckPlugins(obj, plugin_infos, i) ==
    IF i > Len(plugin_infos) THEN [compatible |-> TRUE, errstr |-> <<>>]
    ELSE LET info == plugin_infos[i]
             c == IsPluginCompatible(obj, info.name, VersionString(info.plugin_version))
         IN IF ~c.compatible
            THEN [compatible |-> FALSE,
                  errstr |-> <<"Plugin ", info.name, " version ",
                               VersionString(info.plugin_version),
                               " not compatible with required plugin version ",
                               c.required_version>>]
            ELSE CheckPlugins(obj, plugin_infos, i + 1)

\* std::string::find: sub occurs in name (the empty string occurs in every name)
Contains(name, sub) ==
    \E i \in 0..(Len(name) - Len(sub)) : SubSeq(name, i + 1, i + Len(sub)) = sub

\* falco_engine::enable_rule(substring, enabled)
EnableRule(obj, substring, enabled) ==
    [obj EXCEPT !.rules =
        {IF Contains(r.name, substring) THEN [r EXCEPT !.enabled = enabled] ELSE r :
           r \in @}]

\* falco_engine::enable_rule_by_tag(tags, enabled)
EnableRuleByTag(obj, tags, enabled) ==
    [obj EXCEPT !.rules =
        {IF r.tags \cap tags # {} THEN [r EXCEPT !.enabled = enabled] ELSE r :
           r \in @}]

\* DisableSubstrings that applies the first substring only
DisableSubstringsFirstOnly(obj, substrings, i) ==
    IF substrings = <<>> THEN obj ELSE EnableRule(obj, substrings[1], FALSE)

RECURSIVE DisableSubstrings(_, _, _)
\* lines 238-242: the loop over m_config.disabled_rule_substrings
DisableSubstrings(obj, substrings, i) ==
    IF i > Len(substrings) THEN obj
    ELSE DisableSubstrings(EnableRule(obj, substrings[i], FALSE), substrings, i + 1)

\* lines 244-251
DisableTags(obj, cfg) ==
    IF Cardinality(cfg.disabled_rule_tags) > 0
    THEN EnableRuleByTag(obj, cfg.disabled_rule_tags, FALSE)
    ELSE obj

\* lines 253-265
EnableTags(obj, cfg) ==
    IF Cardinality(cfg.enabled_rule_tags) > 0
    THEN EnableRuleByTag(EnableRule(obj, <<>>, FALSE), cfg.enabled_rule_tags, TRUE)
    ELSE obj

\* ApplyDirectives with the tag steps swapped: enabled tags before disabled tags
ApplyDirectivesTagsSwapped(obj, cfg) ==
    DisableTags(EnableTags(DisableSubstrings(obj, cfg.disabled_rule_substrings, 1), cfg), cfg)

\* lines 238-265: the enable/disable directives, in the code's order
ApplyDirectives(obj, cfg) ==
    EnableTags(DisableTags(DisableSubstrings(obj, cfg.disabled_rule_substrings, 1), cfg), cfg)

(***************************************************************************)
(* State.                                                                  *)
(*   m_config, m_inspector, m_engine, m_pending_falco_engine: the members  *)
(*   heap:  the falco_engine objects, by id                                *)
(*   proc:  each producer thread's call in progress and its locals         *)
(*   cons:  the consumer thread's engine() call and its last outcome       *)
(*   held:  the references callers of engine() still hold (a bag of ids)   *)
(*   hist:  what has happened so far (history, read by the properties)     *)
(*   trace: the order of events (history kept by SpecTrace only):          *)
(*          built = the engines of replace calls in the order create_new   *)
(*          returned them; order = the engines in the order they were      *)
(*          pushed; superseded = the engines popped and followed by        *)
(*          another pop in the same engine() call; init = the latest init  *)
(*          call, with the config and inspector stored before it;          *)
(*          after[t] = t's replace began after that init had failed        *)
(***************************************************************************)
VARIABLES m_config, m_inspector, m_engine, m_pending_falco_engine,
          heap, proc, cons, held, hist, trace

vars ==
    <<m_config, m_inspector, m_engine, m_pending_falco_engine,
      heap, proc, cons, held, hist, trace>>

\* the members of the object that threads share
members ==
    <<m_config, m_inspector, m_engine, m_pending_falco_engine>>

IdleProc ==
    [pc |-> "idle", op |-> "none", cfg |-> DefaultConfig, inspector |-> NULL,
     rulesfiles |-> <<>>, ret |-> NULL, errstr |-> <<>>, results |-> <<>>,
     result |-> "none", stage |-> "none",
     wrote |-> FALSE, pushed |-> NULL, dirty |-> FALSE, expect_ok |-> FALSE,
     after_failure |-> FALSE]

IdleCons ==
    [pc |-> "idle", new_engine |-> NULL, result |-> "none", ret |-> NULL,
     start_last |-> NULL, start_active |-> NULL, start_init_ok |-> FALSE,
     start_inspector |-> NULL,
     start_enqueued |-> FALSE, pushed_during |-> FALSE, popped |-> 0,
     prev_ret |-> NULL, prev_popped |-> 0]

NoInit ==
    [by |-> "none", state |-> "none", config |-> DefaultConfig, inspector |-> NULL,
     initialized |-> FALSE, overlap |-> FALSE]

NoTrace ==
    [built |-> <<>>, order |-> <<>>, superseded |-> {}, init |-> NoInit,
     after |-> [t \in Producers |-> FALSE]]

\* the state after the constructor (lines 64-66)
Init ==
    /\ m_config = DefaultConfig
    /\ m_inspector = ConstructedInspector
    /\ m_engine = NULL
    /\ m_pending_falco_engine = <<>>
    /\ heap = <<>>
    /\ proc = [t \in Producers |-> IdleProc]
    /\ cons = IdleCons
    /\ held = EmptyBag
    /\ hist = [init_ok |-> FALSE, enqueued |-> FALSE, validated |-> {},
               replace_failed |-> FALSE]
    /\ trace = NoTrace

\* builds begun or promised (an init between its writes and its replace)
Builds ==
    Len(heap) + Cardinality({t \in Producers : proc[t].pc \in {"init_inspector", "init_replace"}})

\* thread t wrote m_config or m_inspector: the other threads' calls in progress
\* ran across a change
MarkDirty(p, t) ==
    [u \in Producers |->
        IF u # t /\ p[u].pc \in {"cn_load", "cn_plugins", "built", "done"}
        THEN [p[u] EXCEPT !.dirty = TRUE] ELSE p[u]]

(***************************************************************************)
(* init (lines 73-81)                                                      *)
(***************************************************************************)
\* line 75: m_config = cfg
InitCall(t, cfg, inspector, cap) ==
    /\ proc[t].pc = "idle"
    /\ Builds < cap
    /\ m_config' = cfg
    /\ proc' = [MarkDirty(proc, t) EXCEPT
                  ![t] = [IdleProc EXCEPT !.pc = "init_inspector", !.op = "init",
                                          !.cfg = cfg, !.inspector = inspector]]
    /\ hist' = [hist EXCEPT !.validated = {}]
    /\ UNCHANGED <<m_inspector, m_engine, m_pending_falco_engine, heap, cons, held>>

\* line 76: m_inspector = inspector
InitSetInspector(t) ==
    /\ proc[t].pc = "init_inspector"
    /\ m_inspector' = proc[t].inspector
    /\ proc' = [MarkDirty(proc, t) EXCEPT ![t].pc = "init_replace"]
    /\ hist' = [hist EXCEPT !.validated = {}]
    /\ UNCHANGED <<m_config, m_engine, m_pending_falco_engine, heap, cons, held>>

(***************************************************************************)
(* create_new (lines 132-268)                                              *)
(***************************************************************************)
\* CreateNewBegin without the check of lines 139-144
CreateNewBeginNoGate(t, op, rulesfiles) ==
    LET e == Len(heap) + 1
        h == MakeShared(heap)
        p == [proc[t] EXCEPT !.op = op, !.rulesfiles = rulesfiles, !.errstr = <<>>,
                             !.results = <<>>, !.result = "none",
                             !.wrote = FALSE, !.pushed = NULL, !.dirty = FALSE,
                             !.expect_ok = rulesfiles \in hist.validated,
                             !.after_failure = hist.replace_failed]
    IN /\ heap' = [h EXCEPT ![e].build.inspector = m_inspector,
                            ![e].build.files = rulesfiles]
       /\ proc' = [proc EXCEPT ![t] = [p EXCEPT !.pc = "cn_load", !.ret = e]]
       /\ UNCHANGED <<members, cons, held, hist>>

\* lines 135-144: the new engine and the inspector check
CreateNewBegin(t, op, rulesfiles) ==
    LET e == Len(heap) + 1
        h == MakeShared(heap)
        p == [proc[t] EXCEPT !.op = op, !.rulesfiles = rulesfiles, !.errstr = <<>>,
                             !.results = <<>>, !.result = "none",
                             !.wrote = FALSE, !.pushed = NULL, !.dirty = FALSE,
                             !.expect_ok = rulesfiles \in hist.validated,
                             !.after_failure = hist.replace_failed]
    IN /\ IF m_inspector = NULL
          THEN /\ heap' = Release(h, e)
               /\ proc' = [proc EXCEPT ![t] =
                             [p EXCEPT !.pc = "built", !.ret = NULL,
                                       !.errstr = <<"No inspector provided yet">>,
                                       !.stage = "inspector"]]
          ELSE /\ heap' = [h EXCEPT ![e].build.inspector = m_inspector,
                                    ![e].build.files = rulesfiles]
               /\ proc' = [proc EXCEPT ![t] = [p EXCEPT !.pc = "cn_load", !.ret = e]]
       /\ UNCHANGED <<members, cons, held, hist>>

\* CreateNewLoad without lines 219-223: a failed load does not end the build
CreateNewLoadKeepsGoing(t) ==
    /\ proc[t].pc = "cn_load"
    /\ LET e == proc[t].ret
           st == LoadRulesFiles(
                    [obj |-> AddSources(heap[e].obj, m_config, m_inspector),
                     os |-> <<>>, successful |-> TRUE, results |-> <<>>],
                    proc[t].rulesfiles, 1, m_config)
       IN /\ heap' = [heap EXCEPT ![e].obj = st.obj, ![e].build.results = st.results]
          /\ proc' = [proc EXCEPT ![t].pc = "cn_plugins", ![t].errstr = st.os,
                                  ![t].results = st.results]
    /\ UNCHANGED <<members, cons, held, hist>>

\* lines 146-223: settings, sources, and the load of every rules file
CreateNewLoad(t) ==
    /\ proc[t].pc = "cn_load"
    /\ LET e == proc[t].ret
           st == LoadRulesFiles(
                    [obj |-> AddSources(heap[e].obj, m_config, m_inspector),
                     os |-> <<>>, successful |-> TRUE, results |-> <<>>],
                    proc[t].rulesfiles, 1, m_config)
           loaded == [heap EXCEPT ![e].obj = st.obj, ![e].build.results = st.results]
       IN IF ~st.successful
          THEN /\ heap' = Release(loaded, e)
               /\ proc' = [proc EXCEPT ![t].pc = "built", ![t].ret = NULL,
                                       ![t].errstr = st.os, ![t].results = st.results,
                                       ![t].stage = "rules"]
          ELSE /\ heap' = loaded
               /\ proc' = [proc EXCEPT ![t].pc = "cn_plugins", ![t].errstr = st.os,
                                       ![t].results = st.results]
    /\ UNCHANGED <<members, cons, held, hist>>

\* lines 225-267: the plugin check and the enable/disable directives
CreateNewFinish(t) ==
    /\ proc[t].pc = "cn_plugins"
    /\ LET e == proc[t].ret
           chk == CheckPlugins(heap[e].obj, m_config.plugin_infos, 1)
       IN /\ IF ~chk.compatible
             THEN /\ heap' = Release(heap, e)
                  /\ proc' = [proc EXCEPT ![t].pc = "built", ![t].ret = NULL,
                                          ![t].errstr = chk.errstr,
                                          ![t].stage = "plugin"]
             ELSE /\ heap' = [heap EXCEPT
                                ![e].obj = ApplyDirectives(@, m_config),
                                ![e].build.plugin_infos = m_config.plugin_infos,
                                ![e].build.plugins_checked = TRUE,
                                ![e].build.policy = TRUE,
                                ![e].build.config = m_config]
                  /\ proc' = [proc EXCEPT ![t].pc = "built", ![t].stage = "complete"]
    /\ UNCHANGED <<members, cons, held, hist>>

(***************************************************************************)
(* replace (lines 105-120) and validate (lines 122-130)                    *)
(***************************************************************************)
\* line 110 of replace: the call and the start of create_new
ReplaceCall(t, rulesfiles, cap) ==
    /\ proc[t].pc = "idle"
    /\ Builds < cap
    /\ CreateNewBegin(t, "replace", rulesfiles)

\* line 80 of init: replace(empty, errstr)
InitReplace(t) ==
    /\ proc[t].pc = "init_replace"
    /\ CreateNewBegin(t, "init", <<>>)

\* line 127 of validate: the call and the start of create_new
ValidateCall(t, rulesfiles, cap) ==
    /\ proc[t].pc = "idle"
    /\ Builds < cap
    /\ CreateNewBegin(t, "validate", rulesfiles)

\* ReplaceReturn that returns true without the push of line 117
ReplaceReturnSkipsPush(t) ==
    /\ proc[t].pc = "built"
    /\ proc[t].op \in {"replace", "init"}
    /\ UNCHANGED <<m_config, m_inspector, m_engine, held, m_pending_falco_engine, cons>>
    /\ LET e == proc[t].ret IN
       IF e = NULL
       THEN /\ proc' = [proc EXCEPT ![t].pc = "done", ![t].result = "false"]
            /\ hist' = [hist EXCEPT !.replace_failed = @ \/ proc[t].op = "replace"]
            /\ UNCHANGED heap
       ELSE /\ heap' = Release(heap, e)
            /\ proc' = [proc EXCEPT ![t].pc = "done", ![t].result = "true",
                                    ![t].ret = NULL]
            /\ hist' = [hist EXCEPT !.init_ok = @ \/ proc[t].op = "init"]

\* ReplaceReturn with the push ahead of the NULL check
ReplaceReturnPushesFirst(t) ==
    /\ proc[t].pc = "built"
    /\ proc[t].op \in {"replace", "init"}
    /\ UNCHANGED <<m_config, m_inspector, m_engine, held>>
    /\ LET e == proc[t].ret IN
       /\ m_pending_falco_engine' = Append(m_pending_falco_engine, e)
       /\ heap' = Release(Acquire(heap, e), e)
       /\ proc' = [proc EXCEPT ![t].pc = "done",
                               ![t].result = IF e = NULL THEN "false" ELSE "true",
                               ![t].ret = NULL, ![t].pushed = e,
                               ![t].wrote = (members' # members)]
       /\ cons' = [cons EXCEPT !.pushed_during = @ \/ cons.pc = "drain"]
       /\ hist' = [hist EXCEPT !.enqueued = @ \/ e # NULL,
                               !.init_ok = @ \/ (e # NULL /\ proc[t].op = "init"),
                               !.replace_failed = @ \/ (e = NULL /\ proc[t].op = "replace")]

\* ReplaceReturn that installs the engine in the active slot itself
ReplaceReturnSetsActive(t) ==
    /\ proc[t].pc = "built"
    /\ proc[t].op \in {"replace", "init"}
    /\ UNCHANGED <<m_config, m_inspector, m_pending_falco_engine, held, cons>>
    /\ LET e == proc[t].ret IN
       IF e = NULL
       THEN /\ proc' = [proc EXCEPT ![t].pc = "done", ![t].result = "false"]
            /\ hist' = [hist EXCEPT !.replace_failed = @ \/ proc[t].op = "replace"]
            /\ UNCHANGED <<m_engine, heap>>
       ELSE /\ m_engine' = e
            /\ heap' = Release(Release(Acquire(heap, e), m_engine), e)
            /\ proc' = [proc EXCEPT ![t].pc = "done", ![t].result = "true",
                                    ![t].ret = NULL, ![t].pushed = e,
                                    ![t].wrote = (members' # members)]
            /\ hist' = [hist EXCEPT !.enqueued = TRUE,
                                    !.init_ok = @ \/ proc[t].op = "init"]

\* lines 112-119: return false on NULL, else push the engine and return true
ReplaceReturn(t) ==
    /\ proc[t].pc = "built"
    /\ proc[t].op \in {"replace", "init"}
    /\ UNCHANGED <<m_config, m_inspector, m_engine, held>>
    /\ LET e == proc[t].ret IN
       IF e = NULL
       THEN /\ proc' = [proc EXCEPT ![t].pc = "done", ![t].result = "false"]
            /\ hist' = [hist EXCEPT !.replace_failed = @ \/ proc[t].op = "replace"]
            /\ UNCHANGED <<m_pending_falco_engine, heap, cons>>
       ELSE /\ m_pending_falco_engine' = Append(m_pending_falco_engine, e)
            /\ heap' = Release(Acquire(heap, e), e)
            /\ proc' = [proc EXCEPT ![t].pc = "done", ![t].result = "true",
                                    ![t].ret = NULL, ![t].pushed = e,
                                    ![t].wrote = (members' # members)]
            /\ cons' = [cons EXCEPT !.pushed_during = @ \/ cons.pc = "drain"]
            /\ hist' = [hist EXCEPT !.enqueued = TRUE,
                                    !.init_ok = @ \/ proc[t].op = "init"]

\* ValidateReturn that hands the engine it built to the pending queue
ValidateReturnPromotes(t) ==
    /\ proc[t].pc = "built"
    /\ proc[t].op = "validate"
    /\ LET e == proc[t].ret IN
       /\ m_pending_falco_engine' =
             IF e # NULL THEN Append(m_pending_falco_engine, e) ELSE m_pending_falco_engine
       /\ heap' = Release(Acquire(heap, e), e)
       /\ proc' = [proc EXCEPT ![t].pc = "done", ![t].ret = NULL,
                               ![t].result = IF e # NULL THEN "true" ELSE "false"]
       /\ hist' = [hist EXCEPT !.validated =
                     IF e # NULL /\ ~proc[t].dirty
                     THEN @ \cup {proc[t].rulesfiles} ELSE @]
    /\ UNCHANGED <<m_config, m_inspector, m_engine, cons, held>>

\* ValidateReturn with the comparison of line 129 inverted
ValidateReturnInverted(t) ==
    /\ proc[t].pc = "built"
    /\ proc[t].op = "validate"
    /\ LET e == proc[t].ret IN
       /\ heap' = Release(heap, e)
       /\ proc' = [proc EXCEPT ![t].pc = "done", ![t].ret = NULL,
                               ![t].result = IF e = NULL THEN "true" ELSE "false"]
       /\ hist' = [hist EXCEPT !.validated =
                     IF e = NULL /\ ~proc[t].dirty
                     THEN @ \cup {proc[t].rulesfiles} ELSE @]
    /\ UNCHANGED <<members, cons, held>>

\* line 129: return (new_engine != NULL); the engine dies with the local
ValidateReturn(t) ==
    /\ proc[t].pc = "built"
    /\ proc[t].op = "validate"
    /\ LET e == proc[t].ret IN
       /\ heap' = Release(heap, e)
       /\ proc' = [proc EXCEPT ![t].pc = "done", ![t].ret = NULL,
                               ![t].result = IF e # NULL THEN "true" ELSE "false"]
       /\ hist' = [hist EXCEPT !.validated =
                     IF e # NULL /\ ~proc[t].dirty
                     THEN @ \cup {proc[t].rulesfiles} ELSE @]
    /\ UNCHANGED <<members, cons, held>>

\* the caller has read the result of init / replace / validate
Return(t) ==
    /\ proc[t].pc = "done"
    /\ proc' = [proc EXCEPT ![t] = IdleProc]
    /\ UNCHANGED <<members, heap, cons, held, hist>>

(***************************************************************************)
(* engine (lines 83-98), on the consumer thread                            *)
(***************************************************************************)
\* p = q for a shared_ptr p that held old
AssignPtr(h, old, new) ==
    Release(Acquire(h, new), old)

\* the consumer's record as the call begins (line 85)
EngineCalled ==
    IF cons.pc = "idle"
    THEN [cons EXCEPT !.new_engine = NULL,
                      !.start_last = IF m_pending_falco_engine = <<>> THEN NULL
                                     ELSE m_pending_falco_engine[Len(m_pending_falco_engine)],
                      !.start_active = m_engine,
                      !.start_init_ok = hist.init_ok,
                      !.start_inspector = m_inspector,
                      !.start_enqueued = hist.enqueued,
                      !.pushed_during = FALSE, !.popped = 0,
                      !.prev_ret = cons.ret, !.prev_popped = cons.popped,
                      !.result = "none", !.ret = NULL]
    ELSE cons

\* engine() may be called: the caller has room to keep what it returns
EngineCallable ==
    cons.pc = "drain" \/ BagCardinality(held) < MaxHeld

\* EngineTryPop that assigns m_engine only from the first engine it pops
EngineTryPopKeepsFirst ==
    /\ EngineCallable
    /\ m_pending_falco_engine # <<>>
    /\ LET c == EngineCalled
           e == Head(m_pending_falco_engine)
           popped == Release(AssignPtr(heap, c.new_engine, e), e)
       IN /\ m_pending_falco_engine' = Tail(m_pending_falco_engine)
          /\ m_engine' = IF c.popped = 0 THEN e ELSE m_engine
          /\ heap' = IF c.popped = 0 THEN AssignPtr(popped, m_engine, e) ELSE popped
          /\ cons' = [c EXCEPT !.pc = "drain", !.new_engine = e,
                               !.popped = IF @ < 2 THEN @ + 1 ELSE @]
    /\ UNCHANGED <<m_config, m_inspector, proc, held, hist>>

\* EngineTryPop that owns the active engine alone: assigning m_engine deletes
\* the engine it replaces
EngineTryPopDeletesOld ==
    /\ EngineCallable
    /\ m_pending_falco_engine # <<>>
    /\ LET c == EngineCalled
           e == Head(m_pending_falco_engine)
           popped == Release(AssignPtr(heap, c.new_engine, e), e)
           deleted == IF m_engine = NULL THEN popped
                      ELSE [popped EXCEPT ![m_engine] = Destroyed]
       IN /\ m_pending_falco_engine' = Tail(m_pending_falco_engine)
          /\ m_engine' = e
          /\ heap' = Acquire(deleted, e)
          /\ cons' = [c EXCEPT !.pc = "drain", !.new_engine = e,
                               !.popped = IF @ < 2 THEN @ + 1 ELSE @]
    /\ UNCHANGED <<m_config, m_inspector, proc, held, hist>>

\* EngineTryPop on a stack: it pops the engine pushed last
EngineTryPopNewestFirst ==
    /\ EngineCallable
    /\ m_pending_falco_engine # <<>>
    /\ LET c == EngineCalled
           n == Len(m_pending_falco_engine)
           e == m_pending_falco_engine[n]
           popped == Release(AssignPtr(heap, c.new_engine, e), e)
       IN /\ m_pending_falco_engine' = SubSeq(m_pending_falco_engine, 1, n - 1)
          /\ m_engine' = e
          /\ heap' = AssignPtr(popped, m_engine, e)
          /\ cons' = [c EXCEPT !.pc = "drain", !.new_engine = e,
                               !.popped = IF @ < 2 THEN @ + 1 ELSE @]
    /\ UNCHANGED <<m_config, m_inspector, proc, held, hist>>

\* EngineTryPop that reads the head of the queue and leaves it there
EngineTryPopPeeks ==
    /\ EngineCallable
    /\ m_pending_falco_engine # <<>>
    /\ LET c == EngineCalled
           e == Head(m_pending_falco_engine)
       IN /\ m_engine' = e
          /\ heap' = AssignPtr(AssignPtr(heap, c.new_engine, e), m_engine, e)
          /\ cons' = [c EXCEPT !.pc = "drain", !.new_engine = e,
                               !.popped = IF @ < 2 THEN @ + 1 ELSE @]
    /\ UNCHANGED <<m_config, m_inspector, m_pending_falco_engine, proc, held, hist>>

\* lines 87-90: one successful try_pop and the assignment to m_engine
EngineTryPop ==
    /\ EngineCallable
    /\ m_pending_falco_engine # <<>>
    /\ LET c == EngineCalled
           e == Head(m_pending_falco_engine)
           popped == Release(AssignPtr(heap, c.new_engine, e), e)
       IN /\ m_pending_falco_engine' = Tail(m_pending_falco_engine)
          /\ m_engine' = e
          /\ heap' = AssignPtr(popped, m_engine, e)
          /\ cons' = [c EXCEPT !.pc = "drain", !.new_engine = e,
                               !.popped = IF @ < 2 THEN @ + 1 ELSE @]
    /\ UNCHANGED <<m_config, m_inspector, proc, held, hist>>

\* EngineThrow without lines 92-95: the null m_engine is returned
EngineReturnsNull ==
    /\ EngineCallable
    /\ m_pending_falco_engine = <<>>
    /\ m_engine = NULL
    /\ LET c == EngineCalled IN
       /\ heap' = Release(heap, c.new_engine)
       /\ cons' = [c EXCEPT !.pc = "idle", !.new_engine = NULL, !.result = "returned",
                            !.ret = NULL]
    /\ UNCHANGED <<members, proc, held, hist>>

\* lines 87, 92-94: try_pop finds nothing and m_engine is NULL: the exception
EngineThrow ==
    /\ EngineCallable
    /\ m_pending_falco_engine = <<>>
    /\ m_engine = NULL
    /\ LET c == EngineCalled IN
       /\ heap' = Release(heap, c.new_engine)
       /\ cons' = [c EXCEPT !.pc = "idle", !.new_engine = NULL, !.result = "thrown"]
    /\ UNCHANGED <<members, proc, held, hist>>

\* lines 87, 92, 97: try_pop finds nothing and m_engine is returned
EngineReturn ==
    /\ EngineCallable
    /\ m_pending_falco_engine = <<>>
    /\ m_engine # NULL
    /\ LET c == EngineCalled IN
       /\ heap' = Release(Acquire(heap, m_engine), c.new_engine)
       /\ cons' = [c EXCEPT !.pc = "idle", !.new_engine = NULL,
                            !.result = "returned", !.ret = m_engine]
       /\ held' = held (+) SetToBag({m_engine})
    /\ UNCHANGED <<members, proc, hist>>

\* a caller of engine() drops the reference it was given
ReleaseHeld(e) ==
    /\ e \in BagToSet(held)
    /\ held' = held (-) SetToBag({e})
    /\ heap' = Release(heap, e)
    /\ UNCHANGED <<members, proc, cons, hist>>

(***************************************************************************)
(* Specifications.                                                         *)
(***************************************************************************)
\* producers on two threads and the consumer, in any interleaving
Next ==
    \/ \E t \in Producers, cfg \in SwapConfigs, i \in {NULL, Inspector} :
          InitCall(t, cfg, i, MaxEngines) /\ UNCHANGED trace
    \/ \E t \in Producers : InitSetInspector(t) /\ UNCHANGED trace
    \/ \E t \in Producers : InitReplace(t) /\ UNCHANGED trace
    \/ \E t \in Producers, fl \in SwapFileLists :
          ReplaceCall(t, fl, MaxEngines) /\ UNCHANGED trace
    \/ \E t \in Producers, fl \in SwapFileLists :
          ValidateCall(t, fl, MaxEngines) /\ UNCHANGED trace
    \/ \E t \in Producers : CreateNewLoad(t) /\ UNCHANGED trace
    \/ \E t \in Producers : CreateNewFinish(t) /\ UNCHANGED trace
    \/ \E t \in Producers : ReplaceReturn(t) /\ UNCHANGED trace
    \/ \E t \in Producers : ValidateReturn(t) /\ UNCHANGED trace
    \/ \E t \in Producers : Return(t) /\ UNCHANGED trace
    \/ EngineTryPop /\ UNCHANGED trace
    \/ EngineThrow /\ UNCHANGED trace
    \/ EngineReturn /\ UNCHANGED trace
    \/ \E e \in BagToSet(held) : ReleaseHeld(e) /\ UNCHANGED trace

Spec ==
    Init /\ [][Next]_vars

\* one producer: init first, then replace / validate over every rules file list
NextBuild ==
    \/ \E cfg \in BuildConfigs, i \in {NULL, Inspector} :
          Len(heap) = 0 /\ InitCall("p1", cfg, i, MaxBuilds) /\ UNCHANGED trace
    \/ InitSetInspector("p1") /\ UNCHANGED trace
    \/ InitReplace("p1") /\ UNCHANGED trace
    \/ \E fl \in RulesFileLists(MaxFiles) :
          Len(heap) > 0 /\ ReplaceCall("p1", fl, MaxBuilds) /\ UNCHANGED trace
    \/ \E fl \in RulesFileLists(MaxFiles) :
          Len(heap) > 0 /\ ValidateCall("p1", fl, MaxBuilds) /\ UNCHANGED trace
    \/ CreateNewLoad("p1") /\ UNCHANGED trace
    \/ CreateNewFinish("p1") /\ UNCHANGED trace
    \/ ReplaceReturn("p1") /\ UNCHANGED trace
    \/ ValidateReturn("p1") /\ UNCHANGED trace
    \/ Return("p1") /\ UNCHANGED trace
    \/ EngineTryPop /\ UNCHANGED trace
    \/ EngineThrow /\ UNCHANGED trace
    \/ EngineReturn /\ UNCHANGED trace
    \/ \E e \in BagToSet(held) : ReleaseHeld(e) /\ UNCHANGED trace

SpecBuild ==
    Init /\ [][NextBuild]_vars

\* the rules file lists handed to replace in SpecTrace and SpecInit
TraceFileLists ==
    {<<"app.yaml">>, <<"bad.yaml">>}

\* the history a step adds to trace: the order of builds, pushes and pops
ObserveOrder ==
    LET finished == {t \in Producers :
                       /\ proc[t].pc = "cn_plugins" /\ proc'[t].pc = "built"
                       /\ proc'[t].ret # NULL /\ proc'[t].op = "replace"}
        pushed == Len(m_pending_falco_engine') > Len(m_pending_falco_engine)
        popped == Len(m_pending_falco_engine') < Len(m_pending_falco_engine)
    IN trace' =
         [trace EXCEPT
            !.built = IF finished # {}
                      THEN Append(@, proc'[CHOOSE t \in finished : TRUE].ret)
                      ELSE @,
            !.order = IF pushed
                      THEN Append(@, m_pending_falco_engine'[Len(m_pending_falco_engine')])
                      ELSE @,
            !.superseded = IF popped /\ cons.new_engine # NULL
                           THEN @ \cup {cons.new_engine}
                           ELSE @]

\* the history a step adds to trace: the latest init call and the replace
\* calls that follow its failure
ObserveInit ==
    LET starts == {t \in Producers : proc[t].pc = "idle" /\ proc'[t].pc = "init_inspector"}
        ends == {t \in Producers :
                   /\ proc[t].op = "init" /\ proc[t].pc = "built" /\ proc'[t].pc = "done"
                   /\ trace.init.by = t}
        replaces == {t \in Producers :
                       /\ proc[t].pc = "idle" /\ proc'[t].pc # "idle"
                       /\ proc'[t].op = "replace"}
    IN trace' =
         [trace EXCEPT
            !.init = IF starts # {}
                     THEN [by |-> CHOOSE t \in starts : TRUE, state |-> "running",
                           config |-> m_config, inspector |-> m_inspector,
                           initialized |-> hist.init_ok,
                           overlap |-> \E u \in Producers :
                                         proc[u].op = "init" /\ proc[u].pc # "done"]
                     ELSE IF ends # {}
                     THEN [@ EXCEPT !.state =
                             IF proc'[trace.init.by].result = "true" THEN "ok" ELSE "failed"]
                     ELSE @,
            !.after = [t \in Producers |->
                         IF t \in replaces
                         THEN /\ trace.init.state = "failed"
                              /\ trace.init.initialized /\ ~trace.init.overlap
                         ELSE @[t]]]

\* two producers and the consumer over init and replace, with the order of
\* builds, pushes and pops kept in trace
NextTrace ==
    \/ \E t \in Producers : InitCall(t, DefaultConfig, Inspector, MaxEngines) /\ ObserveOrder
    \/ \E t \in Producers : InitSetInspector(t) /\ ObserveOrder
    \/ \E t \in Producers : InitReplace(t) /\ ObserveOrder
    \/ \E t \in Producers, fl \in TraceFileLists :
          ReplaceCall(t, fl, MaxEngines) /\ ObserveOrder
    \/ \E t \in Producers : CreateNewLoad(t) /\ ObserveOrder
    \/ \E t \in Producers : CreateNewFinish(t) /\ ObserveOrder
    \/ \E t \in Producers : ReplaceReturn(t) /\ ObserveOrder
    \/ \E t \in Producers : Return(t) /\ ObserveOrder
    \/ EngineTryPop /\ ObserveOrder
    \/ EngineThrow /\ ObserveOrder
    \/ EngineReturn /\ ObserveOrder
    \/ \E e \in BagToSet(held) : ReleaseHeld(e) /\ ObserveOrder

SpecTrace ==
    Init /\ [][NextTrace]_vars

\* one producer and the consumer over init and replace, with the init calls
\* kept in trace
NextInit ==
    \/ \E cfg \in SwapConfigs, i \in {NULL, Inspector} :
          InitCall("p1", cfg, i, MaxEngines) /\ ObserveInit
    \/ InitSetInspector("p1") /\ ObserveInit
    \/ InitReplace("p1") /\ ObserveInit
    \/ \E fl \in SwapFileLists : ReplaceCall("p1", fl, MaxEngines) /\ ObserveInit
    \/ CreateNewLoad("p1") /\ ObserveInit
    \/ CreateNewFinish("p1") /\ ObserveInit
    \/ ReplaceReturn("p1") /\ ObserveInit
    \/ Return("p1") /\ ObserveInit
    \/ EngineTryPop /\ ObserveInit
    \/ EngineThrow /\ ObserveInit
    \/ EngineReturn /\ ObserveInit
    \/ \E e \in BagToSet(held) : ReleaseHeld(e) /\ ObserveInit

SpecInit ==
    Init /\ [][NextInit]_vars

\* a step of engine() on the consumer thread
ConsumerStep ==
    (EngineTryPop \/ EngineThrow \/ EngineReturn) /\ ObserveOrder

\* SpecTrace with a consumer thread that keeps running
SpecLive ==
    SpecTrace /\ WF_vars(ConsumerStep)

(***************************************************************************)
(* Properties.                                                             *)
(***************************************************************************)
\* every rules file of the list loads, and no configured plugin is older than
\* a version the files require: the build passes every gate
BuildPasses(cfg, inspector, rulesfiles) ==
    /\ inspector # NULL
    /\ \A i \in DOMAIN rulesfiles : RulesFileContent(rulesfiles[i]).successful
    /\ \A j \in DOMAIN cfg.plugin_infos :
         \A i \in DOMAIN rulesfiles :
            \A r \in RulesFileContent(rulesfiles[i]).required :
               r.name = cfg.plugin_infos[j].name
                  => ~VersionLess(cfg.plugin_infos[j].plugin_version, r.version)

\* the shared_ptr copies of engine e that exist
References(e) ==
    (IF m_engine = e THEN 1 ELSE 0)
    + Cardinality({i \in DOMAIN m_pending_falco_engine : m_pending_falco_engine[i] = e})
    + CopiesIn(e, held)
    + (IF cons.new_engine = e THEN 1 ELSE 0)
    + Cardinality({t \in Producers : proc[t].ret = e})

\* the consumer's last engine() call has ended
EngineEnded ==
    cons.pc = "idle" /\ cons.result # "none"

\* C1: a replace that returns false has written nothing (no member of the
\* object changed during the call: nothing enqueued, the active engine, the
\* config and the inspector as they were), and a replace whose rules files
\* and bindings pass every gate returns true and has enqueued its engine,
\* also after earlier failed calls.
C1_FailedReplaceLeavesState ==
    \A t \in Producers :
       proc[t].pc = "done" /\ proc[t].op = "replace" =>
          /\ proc[t].result = "false" => ~proc[t].wrote /\ proc[t].pushed = NULL
          /\ (~proc[t].dirty /\ BuildPasses(m_config, m_inspector, proc[t].rulesfiles))
                => proc[t].result = "true" /\ proc[t].pushed # NULL

\* C1 witness: after a failed replace, a replace succeeded and the engine it
\* enqueued is the one the following engine() call returned.
C1_Witness ==
    /\ hist.replace_failed
    /\ EngineEnded /\ cons.result = "returned" /\ cons.prev_ret # NULL
    /\ \E t \in Producers :
          /\ proc[t].pc = "done" /\ proc[t].op = "replace" /\ proc[t].after_failure
          /\ proc[t].result = "true" /\ proc[t].pushed = cons.ret

\* C2: an engine() call during which nothing is enqueued returns the engine
\* enqueued last before the call (B, when A then B were pending), and with
\* nothing pending it returns the engine the previous call returned.
C2_NewestPendingThenIdempotent ==
    (EngineEnded /\ cons.result = "returned" /\ ~cons.pushed_during) =>
       /\ cons.start_last # NULL => cons.ret = cons.start_last
       /\ cons.start_last = NULL => cons.ret = cons.start_active
       /\ (cons.start_last = NULL /\ cons.prev_ret # NULL) => cons.ret = cons.prev_ret

\* C2 witness: a call that drained two pending engines was followed by a
\* call that found nothing pending and returned the same engine.
C2_Witness ==
    /\ EngineEnded /\ cons.result = "returned" /\ ~cons.pushed_during
    /\ cons.prev_popped >= 2 /\ cons.popped = 0
    /\ cons.ret = cons.prev_ret /\ cons.ret # NULL

\* engine e came out of a build in which every gate passed
BuiltThroughEveryGate(e) ==
    /\ e \in DOMAIN heap /\ heap[e].alive
    /\ LET b == heap[e].build IN
       /\ b.inspector # NULL
       /\ Len(b.results) = Len(b.files)
       /\ \A i \in DOMAIN b.files :
            /\ b.results[i].file = b.files[i]
            /\ b.results[i].successful
            /\ RulesFileContent(b.files[i]).successful
            /\ RulesFileContent(b.files[i]).rules # {}
                  => \E r \in heap[e].obj.rules :
                        r.name \in {x.name : x \in RulesFileContent(b.files[i]).rules}
       /\ b.plugins_checked
       /\ \A j \in DOMAIN b.plugin_infos :
            \A r \in heap[e].obj.required :
               r.name = b.plugin_infos[j].name
                  => ~VersionLess(b.plugin_infos[j].plugin_version, r.version)
       /\ b.policy

\* C3: every engine that is pending, active, or was returned by engine()
\* was built with an inspector bound, every rules file loaded successfully,
\* every configured plugin compatible and the directives applied.
C3_OnlyCompleteBuildsReachable ==
    /\ \A i \in DOMAIN m_pending_falco_engine :
          BuiltThroughEveryGate(m_pending_falco_engine[i])
    /\ m_engine # NULL => BuiltThroughEveryGate(m_engine)
    /\ \A e \in BagToSet(held) : BuiltThroughEveryGate(e)
    /\ (EngineEnded /\ cons.result = "returned") => cons.ret # NULL

\* C3 witness: builds have failed, and an engine with loaded rules is active
\* while another is pending.
C3_Witness ==
    /\ hist.replace_failed
    /\ m_engine # NULL /\ heap[m_engine].obj.rules # {}
    /\ m_pending_falco_engine # <<>>

\* C4 (state): an engine is alive exactly while a reference to it exists, and
\* its reference count is the number of those references.
C4_AliveWhileReferenced ==
    \A e \in DOMAIN heap :
       /\ heap[e].alive => heap[e].refs = References(e) /\ heap[e].refs >= 1
       /\ ~heap[e].alive => References(e) = 0

\* C4 (step): no step changes an engine that a caller of engine() holds.
C4_HeldUnmodified ==
    \A e \in BagToSet(held) : heap'[e].alive /\ heap'[e].obj = heap[e].obj

\* C4: an engine is destroyed only when no reference to it remains, and an
\* engine handed out by engine() stays alive and unmodified until released.
C4_DestroyedOnlyUnreferenced ==
    [](C4_AliveWhileReferenced) /\ [][C4_HeldUnmodified \/ \E e \in BagToSet(held) : ReleaseHeld(e)]_vars

\* C4 witness: a caller still holds an engine that later engine() calls have
\* replaced in the active slot.
C4_Witness ==
    \E e \in BagToSet(held) :
       /\ m_engine # NULL /\ m_engine # e
       /\ heap[e].alive /\ heap[e].refs = CopiesIn(e, held)

\* C5: an engine() call made when nothing had ever been enqueued ends with
\* the exception, not with a null engine, and the active slot stays empty.
C5_ThrowsWhenNothingEnqueued ==
    (EngineEnded /\ ~cons.start_enqueued /\ ~cons.pushed_during) =>
       /\ cons.result = "thrown"
       /\ cons.popped = 0
       /\ (~hist.enqueued => m_engine = NULL)

\* C5 witness: only failed calls so far, and engine() has thrown.
C5_Witness ==
    /\ EngineEnded /\ cons.result = "thrown"
    /\ hist.replace_failed /\ ~hist.enqueued
    /\ m_engine = NULL

\* C6: every engine() call that begins after an init has returned success
\* returns a non-null engine and does not throw, whatever init, replace and
\* validate calls (failed ones too) came in between.
C6_AfterInitEngineNeverThrows ==
    (EngineEnded /\ cons.start_init_ok) =>
       /\ cons.result = "returned"
       /\ cons.ret # NULL /\ cons.ret \in DOMAIN heap
       /\ m_engine # NULL

\* C6 witness: init succeeded, a later init unbound the inspector and a
\* replace failed, and the engine() call made then returned an engine.
C6_Witness ==
    /\ EngineEnded /\ cons.start_init_ok /\ cons.result = "returned"
    /\ cons.start_inspector = NULL /\ hist.replace_failed
    /\ cons.prev_ret # NULL

\* C7: no step of a validate call, successful or not, changes the pending
\* queue or the active engine.
C7_ValidateNeverPromotes ==
    [][\A t \in Producers :
          (proc'[t].op = "validate" /\ proc'[t].pc # proc[t].pc) =>
             /\ m_pending_falco_engine' = m_pending_falco_engine
             /\ m_engine' = m_engine]_vars

\* C7 witness: a validate call has returned success while one engine is
\* active and another is pending.
C7_Witness ==
    /\ m_engine # NULL /\ m_pending_falco_engine # <<>>
    /\ \E t \in Producers :
          proc[t].pc = "done" /\ proc[t].op = "validate" /\ proc[t].result = "true"

\* C8: a replace of rules files that a validate call accepted, with no write
\* to the config or the inspector since that validate call began, returns true.
C8_ValidatedReplaceSucceeds ==
    \A t \in Producers :
       (proc[t].pc = "done" /\ proc[t].op = "replace"
           /\ proc[t].expect_ok /\ ~proc[t].dirty)
          => proc[t].result = "true" /\ proc[t].pushed # NULL

\* C8 witness: such a replace, of a rules file that requires a plugin version.
C8_Witness ==
    \E t \in Producers :
       /\ proc[t].pc = "done" /\ proc[t].op = "replace"
       /\ proc[t].expect_ok /\ ~proc[t].dirty
       /\ proc[t].rulesfiles = <<"k8s.yaml">> /\ proc[t].result = "true"

RECURSIVE SplitLines(_, _, _)
\* the lines of a string, each without its newline
SplitLines(str, i, line) ==
    IF i > Len(str) THEN (IF line = <<>> THEN <<>> ELSE <<line>>)
    ELSE IF str[i] = "\n" THEN <<line>> \o SplitLines(str, i + 1, <<>>)
    ELSE SplitLines(str, i + 1, Append(line, str[i]))

\* errstr holds one diagnostic line per rules file, in list order, each
\* stating that file's load result (and its name when there are several)
ReportsEveryFile(errstr, rulesfiles) ==
    LET lines == SplitLines(errstr, 1, <<>>) IN
    /\ Len(lines) = Len(rulesfiles)
    /\ \A i \in DOMAIN rulesfiles :
         LET words == {lines[i][k] : k \in DOMAIN lines[i]} IN
         /\ Len(rulesfiles) > 1 => lines[i][1] = rulesfiles[i]
         /\ ("Ok" \in words) = RulesFileContent(rulesfiles[i]).successful
         /\ ("Invalid" \in words) = ~RulesFileContent(rulesfiles[i]).successful

SomeFileFails(rulesfiles) ==
    \E i \in DOMAIN rulesfiles : ~RulesFileContent(rulesfiles[i]).successful

\* the build of thread t has run its load stage (lines 188-223)
LoadStageDone(t) ==
    \/ proc[t].pc = "cn_plugins"
    \/ proc[t].pc \in {"built", "done"} /\ proc[t].stage \in {"rules", "complete"}

\* C9 as stated (read for a replace made with an inspector bound): the
\* returned diagnostics hold every file's load result in list order, and the
\* build fails if and only if some file's load result is unsuccessful.
C9_AsStated ==
    \A t \in Producers :
       (proc[t].pc = "done" /\ proc[t].op = "replace" /\ m_inspector # NULL) =>
          /\ ReportsEveryFile(proc[t].errstr, proc[t].rulesfiles)
          /\ (proc[t].result = "false") = SomeFileFails(proc[t].rulesfiles)

\* C9 amended: once an inspector is bound, the build loads every rules file
\* (no stop at the first failure); the diagnostics of the load stage hold
\* every file's result in list order and are what a build that fails there
\* returns; the load stage fails exactly when some file is unsuccessful; the
\* build as a whole fails exactly when no inspector is bound, some file is
\* unsuccessful or a plugin is incompatible; a failed replace enqueues nothing.
C9_LoadsEveryFile ==
    \A t \in Producers :
       /\ LoadStageDone(t) =>
            /\ Len(proc[t].results) = Len(proc[t].rulesfiles)
            /\ \A i \in DOMAIN proc[t].rulesfiles :
                  proc[t].results[i].file = proc[t].rulesfiles[i]
            /\ proc[t].stage # "none" =>
                  ReportsEveryFile(proc[t].errstr, proc[t].rulesfiles)
            /\ (proc[t].stage = "rules") = SomeFileFails(proc[t].rulesfiles)
       /\ proc[t].pc = "done" =>
            /\ (proc[t].result = "false")
                  = ~BuildPasses(m_config, m_inspector, proc[t].rulesfiles)
            /\ (proc[t].result = "false" /\ proc[t].op = "replace")
                  => ~proc[t].wrote /\ proc[t].pushed = NULL

\* C9 witness: replace of three files of which the second is malformed has
\* returned false with three diagnostic lines, an engine being active.
C9_Witness ==
    /\ m_engine # NULL
    /\ proc["p1"].pc = "done" /\ proc["p1"].op = "replace"
    /\ proc["p1"].rulesfiles = <<"app.yaml", "bad.yaml", "k8s.yaml">>
    /\ proc["p1"].result = "false"
    /\ Len(SplitLines(proc["p1"].errstr, 1, <<>>)) = 3

\* the entries of cfg.plugin_infos older than a version the files require
IncompatiblePlugins(cfg, rulesfiles) ==
    {j \in DOMAIN cfg.plugin_infos :
       \E i \in DOMAIN rulesfiles :
          \E r \in RulesFileContent(rulesfiles[i]).required :
             /\ r.name = cfg.plugin_infos[j].name
             /\ VersionLess(cfg.plugin_infos[j].plugin_version, r.version)}

\* C10: when an inspector is bound and every rules file loads but a
\* configured plugin is incompatible, replace returns false, its message names
\* that plugin, the supplied version and the required version, and nothing
\* is enqueued nor any member of the object changed.
C10_IncompatiblePluginFailsBuild ==
    \A t \in Producers :
       (/\ proc[t].pc = "done" /\ proc[t].op = "replace"
        /\ m_inspector # NULL
        /\ ~SomeFileFails(proc[t].rulesfiles)
        /\ IncompatiblePlugins(m_config, proc[t].rulesfiles) # {})
          => /\ proc[t].result = "false"
             /\ ~proc[t].wrote /\ proc[t].pushed = NULL
             /\ \E j \in IncompatiblePlugins(m_config, proc[t].rulesfiles) :
                  LET info == m_config.plugin_infos[j] IN
                  /\ Len(proc[t].errstr) = 6
                  /\ proc[t].errstr[2] = info.name
                  /\ proc[t].errstr[4] = VersionString(info.plugin_version)
                  /\ \E i \in DOMAIN proc[t].rulesfiles :
                       \E r \in RulesFileContent(proc[t].rulesfiles[i]).required :
                          /\ r.name = info.name
                          /\ proc[t].errstr[6] = VersionString(r.version)

\* C10 witness: plugin json 1.0.0 against rules that require json 2.0.0,
\* listed after a compatible plugin, with an engine active.
C10_Witness ==
    /\ m_engine # NULL
    /\ Len(m_config.plugin_infos) = 2
    /\ proc["p1"].pc = "done" /\ proc["p1"].op = "replace"
    /\ proc["p1"].result = "false"
    /\ proc["p1"].errstr = <<"Plugin ", "json", " version ", "1.0.0",
                            " not compatible with required plugin version ", "2.0.0">>

\* the rules that loading the files of the list defines, as loaded
LoadedRules(rulesfiles) ==
    UNION {RulesFileContent(rulesfiles[i]).rules : i \in DOMAIN rulesfiles}

\* the engines that came out of a complete build and still exist
CompleteEngines ==
    {e \in DOMAIN heap : heap[e].alive /\ heap[e].build.policy}

\* C11: in every engine built under a config whose enabled_rule_tags is not
\* empty, the rules are those of the files loaded, and a rule is enabled if
\* and only if it carries a tag of enabled_rule_tags, whatever
\* disabled_rule_substrings and disabled_rule_tags hold and whatever enabled
\* state the rule was loaded with.
C11_EnabledTagsAllowList ==
    \A e \in CompleteEngines :
       LET cfg == heap[e].build.config
           rules == heap[e].obj.rules
       IN cfg.enabled_rule_tags # {} =>
            /\ {r.name : r \in rules} = {r.name : r \in LoadedRules(heap[e].build.files)}
            /\ \A r \in rules :
                  r.enabled <=> (r.tags \cap cfg.enabled_rule_tags # {})

\* C11 witness: disabled_rule_tags = {network}, enabled_rule_tags =
\* {filesystem}: the active engine has exactly the filesystem-tagged rules
\* enabled, one of them tagged network too and loaded disabled.
C11_Witness ==
    /\ m_engine # NULL
    /\ heap[m_engine].build.config.disabled_rule_tags = {"network"}
    /\ heap[m_engine].build.config.enabled_rule_tags = {"filesystem"}
    /\ {r.name : r \in {x \in heap[m_engine].obj.rules : x.enabled}}
          = {<<"f", "s">>, <<"f", "n">>}
    /\ \E r \in heap[m_engine].obj.rules : ~r.enabled

\* rule r falls under a disable directive of cfg
DisabledByDirective(r, cfg) ==
    \/ \E i \in DOMAIN cfg.disabled_rule_substrings :
          Contains(r.name, cfg.disabled_rule_substrings[i])
    \/ r.tags \cap cfg.disabled_rule_tags # {}

\* C18: in every engine built under a config whose enabled_rule_tags is
\* empty, a rule is disabled if its name contains a string of
\* disabled_rule_substrings or it carries a tag of disabled_rule_tags, and
\* every other rule has the enabled state it was loaded with.
C18_DisableDirectives ==
    \A e \in CompleteEngines :
       LET cfg == heap[e].build.config IN
       cfg.enabled_rule_tags = {} =>
          heap[e].obj.rules =
             {[r EXCEPT !.enabled = IF DisabledByDirective(r, cfg) THEN FALSE ELSE @] :
                r \in LoadedRules(heap[e].build.files)}

\* C18 witness: two substrings, the second of which matches a rule the first
\* does not; the active engine has that rule disabled and another enabled.
C18_Witness ==
    /\ m_engine # NULL
    /\ Len(heap[m_engine].build.config.disabled_rule_substrings) = 2
    /\ heap[m_engine].build.config.enabled_rule_tags = {}
    /\ \E r \in heap[m_engine].obj.rules : r.name = <<"n", "e", "t">> /\ ~r.enabled
    /\ \E r \in heap[m_engine].obj.rules : r.name = <<"f", "s">> /\ r.enabled

\* what a call that ended while no inspector was bound has done, msg being
\* the message it returned: it failed with msg at the first gate, loaded no
\* rules file, ran no plugin check, applied no directive, enqueued nothing
FailedAtInspectorGate(t, msg) ==
    /\ proc[t].result = "false"
    /\ proc[t].errstr = msg
    /\ proc[t].stage = "inspector"
    /\ proc[t].results = <<>>
    /\ proc[t].ret = NULL /\ proc[t].pushed = NULL
    /\ \A e \in DOMAIN heap :
          heap[e].build.inspector = NULL =>
             /\ heap[e].obj = EmptyEngine
             /\ ~heap[e].build.plugins_checked /\ ~heap[e].build.policy
             /\ e # m_engine
             /\ \A i \in DOMAIN m_pending_falco_engine : m_pending_falco_engine[i] # e

\* C17 as stated: with no inspector bound, init, replace and validate fail at
\* the first gate with the message "No inspector/source provided yet".
C17_AsStated ==
    \A t \in Producers :
       (proc[t].pc = "done" /\ m_inspector = NULL) =>
          FailedAtInspectorGate(t, <<"No inspector/source provided yet">>)

\* C17 amended: with no inspector bound, init, replace and validate fail at
\* the first gate with the message "No inspector provided yet"; no rules file
\* is loaded, no plugin check or directive is applied, nothing is enqueued.
C17_InspectorGateFirst ==
    \A t \in Producers :
       (proc[t].pc = "done" /\ m_inspector = NULL) =>
          FailedAtInspectorGate(t, <<"No inspector provided yet">>)

\* C17 witness: with no inspector bound and an incompatible plugin
\* configured, validate of a malformed file and a file that requires the
\* plugin has failed with the inspector message alone.
C17_Witness ==
    /\ m_inspector = NULL
    /\ m_config.plugin_infos = <<JsonPlugin(<<1, 0, 0>>)>>
    /\ proc["p1"].pc = "done" /\ proc["p1"].op = "validate"
    /\ proc["p1"].rulesfiles = <<"bad.yaml", "k8s.yaml">>
    /\ proc["p1"].result = "false"
    /\ proc["p1"].errstr = <<"No inspector provided yet">>

\* C13: the only steps that change the active engine are try_pop steps of
\* engine() on the consumer thread, which assign it the engine popped; a
\* step of a producer (init, replace, validate) leaves the active engine as
\* it is and either leaves the pending queue as it is or appends one engine
\* to it (producers never pop).
C13_SingleWriterOfActive ==
    [][/\ m_engine' # m_engine =>
            /\ proc' = proc
            /\ cons'.pc = "drain"
            /\ m_pending_falco_engine # <<>>
            /\ m_engine' = Head(m_pending_falco_engine)
            /\ m_pending_falco_engine' = Tail(m_pending_falco_engine)
       /\ \A t \in Producers :
            proc'[t] # proc[t] =>
               /\ m_engine' = m_engine
               /\ cons'.new_engine = cons.new_engine
               /\ \/ m_pending_falco_engine' = m_pending_falco_engine
                  \/ \E e \in DOMAIN heap :
                        m_pending_falco_engine' = Append(m_pending_falco_engine, e)]_vars

\* C13 witness: engine() has moved the active slot from one engine to the
\* engine a replace enqueued, and a validate call has returned success.
C13_Witness ==
    /\ EngineEnded /\ cons.result = "returned"
    /\ cons.prev_ret # NULL /\ cons.ret # cons.prev_ret /\ m_engine = cons.ret
    /\ \E t, u \in Producers :
          /\ proc[t].pc = "done" /\ proc[t].op = "replace" /\ proc[t].pushed = m_engine
          /\ proc[u].pc = "done" /\ proc[u].op = "validate" /\ proc[u].result = "true"

\* the place of engine e in the order of pushes
Pos(e) ==
    CHOOSE i \in DOMAIN trace.order : trace.order[i] = e

\* the place of engine e in the order in which create_new returned
BuiltPos(e) ==
    CHOOSE i \in DOMAIN trace.built : trace.built[i] = e

\* every engine was pushed once, and the pending queue holds the engines
\* pushed and not yet popped, in the order of their pushes
PendingIsRestOfOrder ==
    /\ \A i, j \in DOMAIN trace.order : trace.order[i] = trace.order[j] => i = j
    /\ Len(m_pending_falco_engine) <= Len(trace.order)
    /\ m_pending_falco_engine =
          SubSeq(trace.order, Len(trace.order) - Len(m_pending_falco_engine) + 1,
                 Len(trace.order))

\* C14: an engine popped by an engine() call and followed by another pop in
\* that call is never the engine returned by that or a later call, is not
\* the active engine when a call returns, is held by no caller, and is never
\* in the pending queue again (every engine is pushed once and popped at
\* most once).
C14_SupersededForGood ==
    /\ PendingIsRestOfOrder
    /\ \A e \in trace.superseded :
          /\ cons.pc = "idle" => m_engine # e
          /\ cons.ret # e /\ cons.prev_ret # e
          /\ e \notin BagToSet(held)
          /\ \A i \in DOMAIN m_pending_falco_engine : m_pending_falco_engine[i] # e

\* C14 witness: a call drained two engines, superseding the first, and a
\* later call has promoted and returned a third.
C14_Witness ==
    /\ trace.superseded # {}
    /\ EngineEnded /\ cons.result = "returned"
    /\ cons.prev_popped >= 2 /\ cons.popped = 1
    /\ cons.ret \notin trace.superseded

\* C16: the pending queue is first in, first out (it holds the engines not
\* yet popped in the order they were pushed, so pops follow push order), the
\* active engine is the engine popped last, and an engine() call returns
\* an engine pushed no earlier than the engine the previous call returned.
C16_PromotionFollowsEnqueueOrder ==
    /\ PendingIsRestOfOrder
    /\ LET k == Len(trace.order) - Len(m_pending_falco_engine) IN
       IF k = 0 THEN m_engine = NULL ELSE m_engine = trace.order[k]
    /\ (EngineEnded /\ cons.result = "returned") =>
          /\ \E i \in DOMAIN trace.order : trace.order[i] = cons.ret
          /\ cons.prev_ret # NULL => Pos(cons.prev_ret) <= Pos(cons.ret)

\* C16 witness: a call returned the first engine pushed, and the next call
\* drained two more and returned the third.
C16_Witness ==
    /\ EngineEnded /\ cons.result = "returned" /\ cons.prev_ret # NULL
    /\ Pos(cons.prev_ret) = 1 /\ Pos(cons.ret) = 3
    /\ cons.popped >= 2

\* C15 as stated: the engines of replace calls are pushed in the order in
\* which their builds completed (create_new returned), also when the calls
\* run on different threads, so the active engine was never built before an
\* engine pushed ahead of it.
C15_AsStated ==
    LET replaced == {trace.built[i] : i \in DOMAIN trace.built} IN
    /\ \A i, j \in DOMAIN trace.order :
          (i < j /\ trace.order[i] \in replaced /\ trace.order[j] \in replaced)
             => BuiltPos(trace.order[i]) < BuiltPos(trace.order[j])
    /\ (cons.pc = "idle" /\ m_engine \in replaced) =>
          \A i \in DOMAIN trace.order :
             (i < Pos(m_engine) /\ trace.order[i] \in replaced)
                => BuiltPos(trace.order[i]) < BuiltPos(m_engine)

\* C12 (state): a replace whose build has ended can take its step (return
\* false, or push and return true) whatever the consumer is doing, an
\* engine() call in its loop can take its next step whatever the producers
\* are doing, and with nothing pending and an active engine, engine() can
\* return at once.
C12_NonBlocking ==
    /\ \A t \in Producers :
          (proc[t].pc = "built" /\ proc[t].op \in {"replace", "init"}) =>
             ENABLED (ReplaceReturn(t) /\ ObserveOrder)
    /\ cons.pc = "drain" => ENABLED ConsumerStep
    /\ (m_pending_falco_engine = <<>> /\ m_engine # NULL /\ EngineCallable) =>
          ENABLED (EngineReturn /\ ObserveOrder)

\* the consumer is in the loop of an engine() call
Draining ==
    cons.pc = "drain"

C19_AsStated ==
    [][\A t \in Producers :
          (\/ proc[t].pc = "idle" /\ proc'[t].pc = "init_inspector"
           \/ proc[t].pc = "init_inspector" /\ proc'[t].pc = "init_replace")
             => \A u \in Producers \ {t} : proc[u].pc \notin {"cn_load", "cn_plugins"}]_vars

\* C20 as stated: after an init that returned false on an initialized
\* object, the stored config and inspector are those from before the call,
\* and a replace begun after it with rules files that passed every gate
\* under them returns true.
C20_AsStated ==
    (trace.init.state = "failed" /\ trace.init.initialized /\ ~trace.init.overlap) =>
       /\ m_config = trace.init.config
       /\ m_inspector = trace.init.inspector
       /\ \A t \in Producers :
             (/\ proc[t].pc = "done" /\ proc[t].op = "replace" /\ trace.after[t]
              /\ BuildPasses(trace.init.config, trace.init.inspector, proc[t].rulesfiles))
                => proc[t].result = "true"

============================================================================
